---------------------------- MODULE Spec2Model ----------------------------
(***************************************************************************)
(* Appointment system: slot engine (available_slots.py), schedule source   *)
(* (doctor_schedule.py), calendar client (calendly_client.py), type        *)
(* catalog (config/appointment_types.py) and booking service               *)
(* (appointment_booking.py).                                               *)
(*                                                                         *)
(* A datetime is the number of minutes since 2024-01-01 00:00 (a Monday);  *)
(* a date is a day number, a time of day a minute in 0..1439.  Strings     *)
(* produced by strftime and consumed by strptime are TLA+ strings with the *)
(* same characters as in the program.                                      *)
(***************************************************************************)
EXTENDS Integers, Sequences, FiniteSets, TLC

VARIABLES
    calendar,       \* external: ids of the events the remote calendar holds
    api,            \* external: how the remote calendar answers a request
    working_hours,  \* the table DoctorSchedule.get_working_hours returns
    slot_interval,  \* AvailableSlots.slot_interval
    last,           \* the call that has just returned: operation, arguments, result
    callers,        \* concurrent callers of the booking service: where each
                    \* one is in its call, and what it holds
    minted          \* the ids the booking service has handed out, oldest first

vars == <<calendar, api, working_hours, slot_interval, last, callers, minted>>

---------------------------------------------------------------------------
(* Bounds of the model *)

\* start dates of the queries range over the days 0..MaxDay
MaxDay == 6

\* end date of a range query is at most MaxSpan days after its start day
MaxSpan == 2

\* the largest bound given to the duration filter, in minutes
MaxDurationBound == 70

\* the concurrent callers are followed until the booking service has handed
\* out MaxMinted ids
MaxMinted == 2

\* the largest grid interval given to generate_time_slots, in minutes
MaxInterval == 60

---------------------------------------------------------------------------
(* Time arithmetic of datetime *)

MinutesPerDay == 24 * 60

\* datetime.date()
DateOf(dt) == dt \div MinutesPerDay

\* datetime.time()
TimeOf(dt) == dt % MinutesPerDay

\* datetime.combine(date, time)
Combine(day, t) == day * MinutesPerDay + t

\* date.replace(hour=0, minute=0, second=0, microsecond=0)
StartOfDay(dt) == Combine(DateOf(dt), 0)

\* date.replace(hour=23, minute=59, second=59, microsecond=999999), to the minute
EndOfDay(dt) == Combine(DateOf(dt), MinutesPerDay - 1)

None == "None"

---------------------------------------------------------------------------
(* strftime / strptime *)

Digit == <<"0", "1", "2", "3", "4", "5", "6", "7", "8", "9">>

\* a number below 100 printed with two digits (%H, %M, %m, %d of strftime)
D2(n) == Digit[(n \div 10) + 1] \o Digit[(n % 10) + 1]

\* the spellings of n that a numeric directive of strptime accepts
NumForms(n) == {D2(n)} \cup (IF n < 10 THEN {Digit[n + 1]} ELSE {})

\* time.strftime('%H:%M')
FormatTime(t) == D2(t \div 60) \o ":" \o D2(t % 60)

\* lengths of the months of 2024, the year the model's days lie in
MonthLen == <<31, 29, 31, 30, 31, 30, 31, 31, 30, 31, 30, 31>>

RECURSIVE MonthOf(_, _)
MonthOf(day, m) == IF day < MonthLen[m] THEN <<m, day + 1>>
                   ELSE MonthOf(day - MonthLen[m], m + 1)

\* date.strftime('%Y-%m-%d')
FormatDate(day) == LET md == MonthOf(day, 1)
                   IN "2024-" \o D2(md[1]) \o "-" \o D2(md[2])

WeekDays == <<"monday", "tuesday", "wednesday", "thursday", "friday",
              "saturday", "sunday">>

\* date.strftime('%A').lower()
DayName(day) == WeekDays[(day % 7) + 1]

\* date.strftime('%A')
DayNameCap == [n \in {"monday", "tuesday", "wednesday", "thursday", "friday",
                      "saturday", "sunday"} |->
               CASE n = "monday" -> "Monday" [] n = "tuesday" -> "Tuesday"
                 [] n = "wednesday" -> "Wednesday" [] n = "thursday" -> "Thursday"
                 [] n = "friday" -> "Friday" [] n = "saturday" -> "Saturday"
                 [] OTHER -> "Sunday"]

\* slot.isoformat() of a datetime without seconds
IsoFormat(dt) == FormatDate(DateOf(dt)) \o "T" \o FormatTime(TimeOf(dt)) \o ":00"

\* the strings the model hands to strptime(.., '%H:%M')
TimeStrings == {FormatTime(15 * k) : k \in 0..95}
                 \cup {"9:00", "9:30", "25:00", "0900", "nine"}

\* datetime.strptime(s, '%H:%M').time(); ValueError when no time is spelled s
ValueError == 0 - 1

TimeTable == [s \in TimeStrings |->
                LET ts == {t \in 0..(MinutesPerDay - 1) :
                             \E H \in NumForms(t \div 60), M \in NumForms(t % 60) :
                                s = H \o ":" \o M}
                IN IF ts = {} THEN ValueError ELSE CHOOSE t \in ts : TRUE]

StrpTime(s) == IF s \in TimeStrings THEN TimeTable[s] ELSE ValueError

\* the strings the model hands to strptime(.., '%Y-%m-%d')
DateStrings == {"2024-01-01", "2024-1-2", "2024-01-07", "01/01/2024", "2024-02-30"}

\* datetime.strptime(s, '%Y-%m-%d'), as a day number; ValueError when no
\* date of 2024 is spelled s
DateTable == [s \in DateStrings |->
                LET ds == {day \in 0..365 :
                             \E M \in NumForms(MonthOf(day, 1)[1]),
                                D \in NumForms(MonthOf(day, 1)[2]) :
                                s = "2024-" \o M \o "-" \o D}
                IN IF ds = {} THEN ValueError ELSE CHOOSE day \in ds : TRUE]

StrpDate(s) == IF s \in DateStrings THEN DateTable[s] ELSE ValueError

\* AvailableSlots.parse_time_string
parse_time_string(time_str) == StrpTime(time_str)

---------------------------------------------------------------------------
(* config/appointment_types.py *)

APPOINTMENT_TYPES ==
    [t \in {"general_consultation", "follow_up", "physical_exam",
            "specialist_consultation"} |->
       CASE t = "general_consultation" ->
              [name |-> "General Consultation", duration |-> 30]
         [] t = "follow_up" ->
              [name |-> "Follow-up", duration |-> 15]
         [] t = "physical_exam" ->
              [name |-> "Physical Exam", duration |-> 45]
         [] OTHER ->
              [name |-> "Specialist Consultation", duration |-> 60]]

\* None is modelled by 0 where the program tests the value for truth
NoDuration == 0

get_appointment_duration(appointment_type) ==
    IF appointment_type \in DOMAIN APPOINTMENT_TYPES
    THEN APPOINTMENT_TYPES[appointment_type].duration
    ELSE NoDuration

get_appointment_info(appointment_type) == APPOINTMENT_TYPES[appointment_type]

---------------------------------------------------------------------------
(* appointment_type_handler.py *)

\* the keys of APPOINTMENT_TYPES in the order the dict lists them
TypeKeys == <<"general_consultation", "follow_up", "physical_exam",
              "specialist_consultation">>

\* AppointmentTypeHandler.list_all_types
list_all_types ==
    [i \in DOMAIN TypeKeys |->
       [id |-> TypeKeys[i],
        name |-> APPOINTMENT_TYPES[TypeKeys[i]].name,
        duration |-> APPOINTMENT_TYPES[TypeKeys[i]].duration]]

\* None given for a bound of the filter
Unset == 0 - 1

\* a bound of the filter tested for truth: None and 0 are false
BoundGiven(bound) == bound # Unset /\ bound # 0

\* filter_types_by_duration: the body of the loop, true when the type is kept
KeepsType(duration, min_duration, max_duration) ==
    /\ ~(BoundGiven(min_duration) /\ duration < min_duration)
    /\ ~(BoundGiven(max_duration) /\ duration > max_duration)

\* AppointmentTypeHandler.filter_types_by_duration
filter_types_by_duration(min_duration, max_duration) ==
    SelectSeq(list_all_types,
              LAMBDA apt_type :
                KeepsType(apt_type.duration, min_duration, max_duration))

---------------------------------------------------------------------------
(* The remote calendar and calendly_client.py *)

\* An ISO timestamp of the calendar: its wall-clock fields and its UTC offset
Stamp(day, t, off) == [wall |-> Combine(day, t), off |-> off]

\* the events the remote calendar may hold, in the order it lists them
EventPool == <<
    [id |-> "ev1", start_time |-> Stamp(0, 570, 0), end_time |-> Stamp(0, 600, 0),
     status |-> "active"],
    [id |-> "ev2", start_time |-> Stamp(1, 540, 0), end_time |-> Stamp(1, 1020, 0),
     status |-> "active"],
    [id |-> "ev3", start_time |-> Stamp(0, 660, 0), end_time |-> Stamp(0, 720, 0),
     status |-> "canceled"],
    [id |-> "ev4", start_time |-> Stamp(2, 610, 300), end_time |-> Stamp(2, 620, 300),
     status |-> "active"] >>

EventIds == {EventPool[i].id : i \in DOMAIN EventPool}

\* the instant a timestamp denotes
Instant(stamp) == stamp.wall - stamp.off

ApiStates == {"ok", "http_error", "no_response"}

\* None where the program reports a status code
NoStatus == 0

\* the remote end of GET /scheduled_events: the held events that start in
\* [min_start_time, max_start_time]
ScheduledEvents(min_start, max_start) ==
    SelectSeq(EventPool, LAMBDA e : /\ e.id \in calendar
                                    /\ min_start <= Instant(e.start_time)
                                    /\ Instant(e.start_time) <= max_start)

Raised(r) == "raised" \in DOMAIN r

\* CalendlyAPI._make_request for GET /scheduled_events.  With no response at
\* all the name response is unbound when the except clause reads it.
make_request(min_start, max_start) ==
    CASE api = "ok" -> [collection |-> ScheduledEvents(min_start, max_start)]
      [] api = "http_error" ->
            [error |-> TRUE, message |-> "HTTPError", status_code |-> NoStatus]
      [] OTHER -> [raised |-> "UnboundLocalError"]

\* CalendlyAPI.get_scheduled_events
get_scheduled_events(start_time, end_time) == make_request(start_time, end_time)

\* the HTTP status of the answers that carry an error status
ServerError == 500
NotFound == 404

\* the status of the answer the remote end gives to the cancellation of an
\* event: 0 when no answer arrives, 201 when the event is cancelled
CancelStatus(event_uuid) ==
    CASE api = "no_response" -> 0
      [] api = "http_error" -> ServerError
      [] event_uuid \notin calendar -> NotFound
      [] OTHER -> 201

\* cancel_event: the body of the request, empty unless a reason is given
CancelData(reason) ==
    IF reason = None \/ reason = "" THEN << >> ELSE [reason |-> reason]

\* the request cancel_event sends to the calendar
CancelRequests(event_uuid, reason) ==
    <<[method |-> "POST",
       endpoint |-> "/scheduled_events/" \o event_uuid \o "/cancellation",
       data |-> CancelData(reason)]>>

\* CalendlyAPI._make_request for the cancellation, from the status of the
\* answer on.  A Response with an error status tests false, so the except
\* clause reports None for its status_code; with no answer at all the name
\* response is unbound when the except clause reads it.
CancelAnswered(status, reason) ==
    CASE status = 0 -> [raised |-> "UnboundLocalError"]
      [] status >= 400 ->
            [error |-> TRUE, message |-> "HTTPError", status_code |-> NoStatus]
      [] OTHER -> [resource |-> [reason |-> reason]]

\* CalendlyAPI.cancel_event
cancel_event(event_uuid, reason) ==
    CancelAnswered(CancelStatus(event_uuid), reason)

\* the events the remote calendar holds after the cancellation request
CalendarAfterCancel(event_uuid) ==
    IF CancelStatus(event_uuid) = 201 THEN calendar \ {event_uuid} ELSE calendar

---------------------------------------------------------------------------
(* doctor_schedule.py *)

DefaultDay(start, end) == [start |-> start, end |-> end, available |-> TRUE]

\* DoctorSchedule.get_working_hours
DefaultWorkingHours ==
    [d \in {"monday", "tuesday", "wednesday", "thursday", "friday",
            "saturday", "sunday"} |->
       CASE d = "saturday" -> DefaultDay("10:00", "14:00")
         [] d = "sunday" -> [start |-> None, end |-> None, available |-> FALSE]
         [] OTHER -> DefaultDay("09:00", "17:00")]

get_working_hours == working_hours

\* is_working_day that does not look at the available flag
is_working_day_AnyDay(date) == DayName(DateOf(date)) \in DOMAIN get_working_hours

\* DoctorSchedule.is_working_day
is_working_day(date) == get_working_hours[DayName(DateOf(date))].available

\* get_existing_appointments: the appointment built from one event
Appointment(event) ==
    [id |-> event.id, start_time |-> event.start_time,
     end_time |-> event.end_time, status |-> event.status]

\* get_existing_appointments: what is made of the response of the client
AppointmentsOf(response) ==
    IF Raised(response) THEN response
    ELSE IF "error" \in DOMAIN response THEN [appointments |-> << >>]
    ELSE [appointments |-> [i \in DOMAIN response.collection |->
                              Appointment(response.collection[i])]]

\* DoctorSchedule.get_existing_appointments
get_existing_appointments(start_date, end_date) ==
    AppointmentsOf(get_scheduled_events(start_date, end_date))

\* get_busy_time_slots: the busy slot built from one appointment
BusySlot(appointment) ==
    [start |-> appointment.start_time, end |-> appointment.end_time]

\* get_busy_time_slots: the busy slots of the appointments whose status is active
ActiveSlots(appointments) ==
    [busy_slots |-> [i \in DOMAIN appointments |-> BusySlot(appointments[i])]]

\* get_busy_time_slots that takes every appointment fetched as busy
BusyOf_AnyStatus(fetched) ==
    IF Raised(fetched) THEN fetched
    ELSE ActiveSlots(fetched.appointments)

\* get_busy_time_slots: what is made of the appointments fetched
BusyOf(fetched) ==
    IF Raised(fetched) THEN fetched
    ELSE ActiveSlots(SelectSeq(fetched.appointments,
                               LAMBDA a : a.status = "active"))

\* DoctorSchedule.get_busy_time_slots
get_busy_time_slots(date) ==
    BusyOf(get_existing_appointments(StartOfDay(date), EndOfDay(date)))

---------------------------------------------------------------------------
(* available_slots.py *)

\* AvailableSlots.generate_time_slots: the while loop from current_datetime on
RECURSIVE GenerateFrom(_, _, _)

\* the loop of generate_time_slots running while current <= end
GenerateFrom_Inclusive(current_datetime, end_datetime, interval) ==
    IF current_datetime <= end_datetime
    THEN <<current_datetime>>
           \o GenerateFrom(current_datetime + interval, end_datetime, interval)
    ELSE << >>

\* AvailableSlots.generate_time_slots: the while loop from current_datetime on
GenerateFrom(current_datetime, end_datetime, interval) ==
    IF current_datetime < end_datetime
    THEN <<current_datetime>>
           \o GenerateFrom(current_datetime + interval, end_datetime, interval)
    ELSE << >>

generate_time_slots(start_time, end_time, date, interval) ==
    GenerateFrom(Combine(DateOf(date), start_time),
                 Combine(DateOf(date), end_time), interval)

\* a timestamp converted to UTC before its offset is dropped
FromIsoNaive_Converted(stamp) == Instant(stamp)

\* datetime.fromisoformat(..) followed by replace(tzinfo=None)
FromIsoNaive(stamp) == stamp.wall

\* the overlap test looking at the start of the slot only
Overlaps_StartOnly(slot_start, slot_end, busy_start, busy_end) ==
    slot_start < busy_end /\ slot_start >= busy_start

\* the overlap test on closed intervals
Overlaps_Closed(slot_start, slot_end, busy_start, busy_end) ==
    slot_start <= busy_end /\ slot_end >= busy_start

\* the overlap test of is_slot_available
Overlaps(slot_start, slot_end, busy_start, busy_end) ==
    slot_start < busy_end /\ slot_end > busy_start

\* AvailableSlots.is_slot_available: the for loop from busy_slots[i] on
RECURSIVE AvailableFrom(_, _, _, _)
AvailableFrom(slot_start, slot_end, busy_slots, i) ==
    IF i > Len(busy_slots) THEN TRUE
    ELSE IF Overlaps(slot_start, slot_end, FromIsoNaive(busy_slots[i].start),
                     FromIsoNaive(busy_slots[i].end))
         THEN FALSE
         ELSE AvailableFrom(slot_start, slot_end, busy_slots, i + 1)

is_slot_available(slot_start, duration, busy_slots) ==
    AvailableFrom(slot_start, slot_start + duration, busy_slots, 1)

\* the closing-time test of get_available_slots
FitsWorkingHours(slot_end, end_time) == TimeOf(slot_end) <= end_time

\* the entry get_available_slots appends for a kept candidate
SlotEntry(slot, duration) ==
    [start_time |-> FormatTime(TimeOf(slot)),
     end_time |-> FormatTime(TimeOf(slot + duration)),
     datetime |-> IsoFormat(slot)]

\* the entries of the kept candidates listed from the last to the first
Entries_Reversed(kept, duration) ==
    [i \in DOMAIN kept |-> SlotEntry(kept[Len(kept) + 1 - i], duration)]

\* get_available_slots: the entries of the candidates that were kept
Entries(kept, duration) == [i \in DOMAIN kept |-> SlotEntry(kept[i], duration)]

\* AvailableSlots.get_available_slots: the filter loop over all_slots
FilterSlots(all_slots, duration, busy_slots, end_time) ==
    Entries(SelectSeq(all_slots,
                      LAMBDA slot :
                        /\ is_slot_available(slot, duration, busy_slots)
                        /\ FitsWorkingHours(slot + duration, end_time)),
            duration)

\* get_available_slots: the result for a working day
WorkingDayResult(date, appointment_type, duration, available_slots) ==
    [date |-> FormatDate(DateOf(date)),
     day_of_week |-> DayNameCap[DayName(DateOf(date))],
     appointment_type |-> APPOINTMENT_TYPES[appointment_type].name,
     duration |-> duration,
     available_slots |-> available_slots,
     total_slots |-> Len(available_slots)]

\* get_available_slots: from the fetch of the busy slots on
FilterBusy(date, appointment_type, duration, all_slots, end_time, busy) ==
    IF Raised(busy) THEN busy
    ELSE WorkingDayResult(date, appointment_type, duration,
                          FilterSlots(all_slots, duration, busy.busy_slots,
                                      end_time))

\* get_available_slots: a working day with its parsed working hours
WorkingDaySlots(date, appointment_type, duration, start_time, end_time) ==
    FilterBusy(date, appointment_type, duration,
               generate_time_slots(start_time, end_time, date, slot_interval),
               end_time, get_busy_time_slots(date))

\* get_available_slots: a working day
WorkingDay(date, appointment_type, duration, hours) ==
    WorkingDaySlots(date, appointment_type, duration,
                    parse_time_string(hours.start), parse_time_string(hours.end))

\* get_available_slots that looks at the working day before the type
SlotsForDuration_WorkingDayFirst(date, appointment_type, duration) ==
    IF ~is_working_day(date)
    THEN [date |-> FormatDate(DateOf(date)),
          appointment_type |-> appointment_type,
          duration |-> duration,
          available_slots |-> << >>,
          message |-> "Not a working day"]
    ELSE IF duration = NoDuration
    THEN [error |-> TRUE,
          message |-> "Invalid appointment type: " \o appointment_type]
    ELSE WorkingDay(date, appointment_type, duration,
                    get_working_hours[DayName(DateOf(date))])

\* get_available_slots: from the duration of the type on
SlotsForDuration(date, appointment_type, duration) ==
    IF duration = NoDuration
    THEN [error |-> TRUE,
          message |-> "Invalid appointment type: " \o appointment_type]
    ELSE IF ~is_working_day(date)
    THEN [date |-> FormatDate(DateOf(date)),
          appointment_type |-> appointment_type,
          duration |-> duration,
          available_slots |-> << >>,
          message |-> "Not a working day"]
    ELSE WorkingDay(date, appointment_type, duration,
                    get_working_hours[DayName(DateOf(date))])

\* AvailableSlots.get_available_slots
get_available_slots(date, appointment_type) ==
    SlotsForDuration(date, appointment_type,
                     get_appointment_duration(appointment_type))

\* the request get_busy_time_slots sends to the calendar for a day, through
\* get_existing_appointments, get_scheduled_events and _make_request
BusyRequests(date) ==
    <<[method |-> "GET", endpoint |-> "/scheduled_events",
       min_start_time |-> StartOfDay(date), max_start_time |-> EndOfDay(date)]>>

\* the requests one get_available_slots call sends to the calendar: the two
\* early returns come before the call of get_busy_time_slots
SlotRequests(date, appointment_type) ==
    IF get_appointment_duration(appointment_type) = NoDuration THEN << >>
    ELSE IF ~is_working_day(date) THEN << >>
    ELSE BusyRequests(date)

\* the test of the range loop that keeps every result carrying a slot list
HasAvailableSlots_AnyList(slots) == "available_slots" \in DOMAIN slots

\* dict.get('available_slots') tested for truth
HasAvailableSlots(slots) ==
    "available_slots" \in DOMAIN slots /\ slots.available_slots # << >>

RECURSIVE RangeFrom(_, _, _, _)

\* the body of the loop of the range query that hands an error result of a
\* day back to its caller
RangeStep_ErrorSurfaced(slots, current_date, end_date, appointment_type, results) ==
    IF Raised(slots) \/ "error" \in DOMAIN slots THEN slots
    ELSE RangeFrom(current_date + MinutesPerDay, end_date, appointment_type,
                   IF HasAvailableSlots(slots) THEN Append(results, slots)
                   ELSE results)

\* get_available_slots_range: the body of the loop once the day's slots are known
RangeStep(slots, current_date, end_date, appointment_type, results) ==
    IF Raised(slots) THEN slots
    ELSE RangeFrom(current_date + MinutesPerDay, end_date, appointment_type,
                   IF HasAvailableSlots(slots) THEN Append(results, slots)
                   ELSE results)

\* AvailableSlots.get_available_slots_range: the while loop from current_date
\* on, results being the list built so far
RangeFrom(current_date, end_date, appointment_type, results) ==
    IF current_date <= end_date
    THEN RangeStep(get_available_slots(current_date, appointment_type),
                   current_date, end_date, appointment_type, results)
    ELSE [results |-> results]

get_available_slots_range(start_date, end_date, appointment_type) ==
    RangeFrom(start_date, end_date, appointment_type, << >>)

\* the search horizon of get_next_available_slot, in days
SearchDays == 30

\* reporting the last entry of the range instead of the first
FirstDay_Last(slots_range) == slots_range[Len(slots_range)]

\* the entry of the range get_next_available_slot reports
FirstDay(slots_range) == slots_range[1]

\* get_next_available_slot: the answer made of the first day of the range
Found(first_day) ==
    [found |-> TRUE,
     date |-> first_day.date,
     slot |-> first_day.available_slots[1],
     appointment_type |-> first_day.appointment_type,
     duration |-> first_day.duration]

\* get_next_available_slot: from the result of the range query on
NextOf(slots_range, appointment_type) ==
    IF Raised(slots_range) THEN slots_range
    ELSE IF /\ slots_range.results # << >>
            /\ slots_range.results[1].available_slots # << >>
    THEN Found(FirstDay(slots_range.results))
    ELSE [found |-> FALSE,
          message |-> "No available slots found in the next 30 days for "
                        \o appointment_type]

\* AvailableSlots.get_next_available_slot
get_next_available_slot(appointment_type, start_from) ==
    NextOf(get_available_slots_range(start_from,
                                     start_from + SearchDays * MinutesPerDay,
                                     appointment_type),
           appointment_type)

---------------------------------------------------------------------------
(* appointment_booking.py *)

\* required_fields with date and time examined in the other order
required_fields_TimeFirst == <<"appointment_type", "time", "date", "patient_name",
                               "patient_email">>

\* validate_appointment_data: the fields examined, in order
required_fields == <<"appointment_type", "date", "time", "patient_name",
                     "patient_email">>

\* the pieces the e-mail strings of the model are made of
EmailParts == {"", "ann", "example.com", "not-an-email"}

\* '@' in s
ContainsAt(s) == \E l \in EmailParts, r \in EmailParts : s = l \o "@" \o r

\* field not in appointment_data or not appointment_data[field]
MissingField(appointment_data, field) ==
    field \notin DOMAIN appointment_data \/ appointment_data[field] = ""

\* validate_appointment_data: the loop over required_fields from index i on
RECURSIVE FirstMissing(_, _)
FirstMissing(appointment_data, i) ==
    IF i > Len(required_fields) THEN None
    ELSE IF MissingField(appointment_data, required_fields[i])
         THEN required_fields[i]
         ELSE FirstMissing(appointment_data, i + 1)

\* validate_appointment_data: the checks after the loop over required_fields
ValidateFields(appointment_type, date, time, patient_email) ==
    IF appointment_type \notin DOMAIN APPOINTMENT_TYPES
    THEN <<FALSE, "Invalid appointment type: " \o appointment_type>>
    ELSE IF StrpDate(date) = ValueError
    THEN <<FALSE, "Invalid date format. Use YYYY-MM-DD">>
    ELSE IF StrpTime(time) = ValueError
    THEN <<FALSE, "Invalid time format. Use HH:MM">>
    ELSE IF ~ContainsAt(patient_email)
    THEN <<FALSE, "Invalid email format">>
    ELSE <<TRUE, None>>

\* validate_appointment_data: from the outcome of the loop on
ValidateAfter(missing, appointment_data) ==
    IF missing # None
    THEN <<FALSE, "Missing required field: " \o missing>>
    ELSE ValidateFields(appointment_data["appointment_type"],
                        appointment_data["date"], appointment_data["time"],
                        appointment_data["patient_email"])

\* AppointmentBooking.validate_appointment_data
validate_appointment_data(appointment_data) ==
    ValidateAfter(FirstMissing(appointment_data, 1), appointment_data)

\* check_slot_availability: is the requested time among the slots
TimeListed(available_slots, time_str) ==
    \E i \in DOMAIN available_slots : available_slots[i].start_time = time_str

\* check_slot_availability: from the availability of the day on
CheckListed(slots_info, date_str, time_str) ==
    IF Raised(slots_info) THEN slots_info
    ELSE IF "error" \in DOMAIN slots_info
    THEN [is_available |-> FALSE, message |-> slots_info.message]
    ELSE IF slots_info.available_slots = << >>
    THEN [is_available |-> FALSE,
          message |-> "No available slots on " \o date_str]
    ELSE IF TimeListed(slots_info.available_slots, time_str)
    THEN [is_available |-> TRUE, message |-> "Slot is available"]
    ELSE [is_available |-> FALSE,
          message |-> "Time slot " \o time_str \o " is not available on "
                        \o date_str]

\* AppointmentBooking.check_slot_availability
check_slot_availability(appointment_type, date_str, time_str) ==
    CheckListed(get_available_slots(Combine(StrpDate(date_str), 0),
                                    appointment_type),
                date_str, time_str)

\* the values uuid.uuid4() returns
UuidNames == <<"uuid-a", "uuid-b", "uuid-c", "uuid-d">>

Uuids == {UuidNames[i] : i \in 1..MaxMinted}

\* the ids handed out so far
MintedIds == {minted[i].id : i \in DOMAIN minted}

\* the values uuid.uuid4() may return now: it does not repeat a value
FreshUuids == Uuids \ MintedIds

\* a booking result that carries the id without the appointment details
BookingResult_Partial(appointment_data, appointment_info, end_datetime, booking_id) ==
    [success |-> TRUE,
     booking_id |-> booking_id,
     message |-> "Appointment booked successfully"]

\* _simulate_booking: the result for a booking that ends at end_datetime
BookingResult(appointment_data, appointment_info, end_datetime, booking_id) ==
    [success |-> TRUE,
     booking_id |-> booking_id,
     appointment_details |->
       [type |-> appointment_info.name,
        duration |-> appointment_info.duration,
        date |-> appointment_data["date"],
        start_time |-> appointment_data["time"],
        end_time |-> FormatTime(TimeOf(end_datetime)),
        patient |-> [name |-> appointment_data["patient_name"],
                     email |-> appointment_data["patient_email"]],
        status |-> "scheduled"],
     message |-> "Appointment booked successfully"]

\* AppointmentBooking._simulate_booking
simulate_booking(appointment_data, appointment_info, start_datetime, booking_id) ==
    BookingResult(appointment_data, appointment_info,
                  start_datetime + appointment_info.duration, booking_id)

\* create_appointment: from the outcome of the slot check on
CreateChecked(checked, appointment_data, booking_id) ==
    IF Raised(checked) THEN checked
    ELSE IF ~checked.is_available
    THEN [success |-> FALSE, error |-> checked.message]
    ELSE simulate_booking(
           appointment_data,
           get_appointment_info(appointment_data["appointment_type"]),
           Combine(StrpDate(appointment_data["date"]),
                   StrpTime(appointment_data["time"])),
           booking_id)

\* create_appointment: from the outcome of the validation on
CreateValidated(valid, appointment_data, booking_id) ==
    IF ~valid[1] THEN [success |-> FALSE, error |-> valid[2]]
    ELSE CreateChecked(check_slot_availability(
                         appointment_data["appointment_type"],
                         appointment_data["date"],
                         appointment_data["time"]),
                       appointment_data, booking_id)

\* AppointmentBooking.create_appointment; booking_id is what uuid4 returns
\* if the booking is made
create_appointment(appointment_data, booking_id) ==
    CreateValidated(validate_appointment_data(appointment_data),
                    appointment_data, booking_id)

\* cancel_appointment: from the result of cancel_event on
CancelWrapped(result, booking_id, reason) ==
    IF Raised(result) THEN result
    ELSE IF "error" \in DOMAIN result
    THEN [success |-> FALSE, error |-> result.message]
    ELSE [success |-> TRUE,
          message |-> "Appointment cancelled successfully",
          booking_id |-> booking_id,
          cancellation_reason |-> reason]

\* AppointmentBooking.cancel_appointment
cancel_appointment(booking_id, reason) ==
    CancelWrapped(cancel_event(booking_id, reason), booking_id, reason)

\* reschedule_appointment that hands the old id back as the new one
reschedule_appointment_SameId(booking_id, new_date, new_time, new_id) ==
    [success |-> TRUE,
     message |-> "Appointment rescheduled successfully",
     old_booking_id |-> booking_id,
     new_booking_id |-> booking_id,
     new_date |-> new_date,
     new_time |-> new_time]

\* AppointmentBooking.reschedule_appointment; new_id is what uuid4 returns
reschedule_appointment(booking_id, new_date, new_time, new_id) ==
    [success |-> TRUE,
     message |-> "Appointment rescheduled successfully",
     old_booking_id |-> booking_id,
     new_booking_id |-> new_id,
     new_date |-> new_date,
     new_time |-> new_time]

---------------------------------------------------------------------------
(* The callers and the environment *)

\* booking requests: the present fields of a request and their values
Request(S, a) == [f \in S |-> a[f]]

FieldNames == {required_fields[i] : i \in DOMAIN required_fields}

\* requests that exercise every check of the validation
ValidationRequests ==
    {Request(S, a) :
       S \in SUBSET FieldNames,
       a \in [appointment_type : {"", "general_consultation", "dental_cleaning"},
              date : {"", "2024-01-01", "01/01/2024"},
              time : {"", "09:00", "25:00"},
              patient_name : {"", "Ann"},
              patient_email : {"", "ann@example.com", "not-an-email"}]}

\* requests made to create_appointment
BookingRequests ==
    [appointment_type : {"general_consultation", "specialist_consultation"},
     date : {"2024-01-01", "2024-1-2", "2024-01-07"},
     time : {"09:00", "9:00", "09:15", "16:30", "17:00"},
     patient_name : {"Ann"},
     patient_email : {"ann@example.com", "not-an-email"}]
    \cup
    {Request(FieldNames \ {"patient_name"},
             [appointment_type |-> "general_consultation", date |-> "2024-01-01",
              time |-> "09:00", patient_name |-> "Ann",
              patient_email |-> "ann@example.com"]),
     [appointment_type |-> "dental_cleaning", date |-> "2024-01-01",
      time |-> "09:00", patient_name |-> "Ann",
      patient_email |-> "ann@example.com"],
     [appointment_type |-> "general_consultation", date |-> "01/01/2024",
      time |-> "25:00", patient_name |-> "Ann",
      patient_email |-> "ann@example.com"]}

TimesOfDay == {0, 900}

DateTimes == {Combine(d, t) : d \in 0..MaxDay, t \in TimesOfDay}

TypeIds == DOMAIN APPOINTMENT_TYPES \cup {"dental_cleaning"}

\* the arguments of the multi-day queries
RangeTimesOfDay == {600, 900}

RangeStarts == {Combine(d, t) : d \in 0..MaxDay, t \in RangeTimesOfDay}

RangeEnds(start_date) ==
    {end_date \in {Combine(DateOf(start_date) + k, t) :
                     k \in 0..MaxSpan, t \in RangeTimesOfDay} :
       start_date <= end_date}

RangeTypeIds == {"general_consultation", "specialist_consultation", "dental_cleaning"}

NoCall == [op |-> "none"]

\* the concurrent callers of the booking service
Callers == {1, 2}

\* a caller that is in no call
Idle == [pc |-> "idle"]

Init ==
    /\ calendar = {}
    /\ api = "ok"
    /\ working_hours = DefaultWorkingHours
    /\ slot_interval = 15
    /\ last = NoCall
    /\ callers = [c \in Callers |-> Idle]
    /\ minted = << >>

\* last is a get_available_slots call with these arguments
SameCall(date, appointment_type) ==
    /\ last.op = "get_available_slots"
    /\ last.date = date
    /\ last.appointment_type = appointment_type

\* get_available_slots that coarsens the grid of the object for later calls
GetAvailableSlots_Stateful(date, appointment_type) ==
    /\ last = NoCall \/ SameCall(date, appointment_type)
    /\ last' = [op |-> "get_available_slots", date |-> date,
                appointment_type |-> appointment_type,
                out |-> get_available_slots(date, appointment_type),
                requests |-> SlotRequests(date, appointment_type),
                prior |-> IF last = NoCall THEN << >> ELSE <<last.out>>]
    /\ slot_interval' = 30
    /\ UNCHANGED <<calendar, api, working_hours, callers, minted>>

\* a caller invokes get_available_slots and receives its result; requests
\* holds what the call sent to the calendar.  The caller may call again with
\* the same arguments right away, and prior then holds the result of the
\* call before
GetAvailableSlots(date, appointment_type) ==
    /\ last = NoCall \/ SameCall(date, appointment_type)
    /\ last' = [op |-> "get_available_slots", date |-> date,
                appointment_type |-> appointment_type,
                out |-> get_available_slots(date, appointment_type),
                requests |-> SlotRequests(date, appointment_type),
                prior |-> IF last = NoCall THEN << >> ELSE <<last.out>>]
    /\ UNCHANGED <<calendar, api, working_hours, slot_interval, callers, minted>>

\* a caller invokes get_available_slots_range and receives its result
GetAvailableSlotsRange(start_date, end_date, appointment_type) ==
    /\ last = NoCall
    /\ last' = [op |-> "get_available_slots_range", start_date |-> start_date,
                end_date |-> end_date, appointment_type |-> appointment_type,
                out |-> get_available_slots_range(start_date, end_date,
                                                  appointment_type)]
    /\ UNCHANGED <<calendar, api, working_hours, slot_interval, callers, minted>>

\* a caller invokes get_next_available_slot and receives its result
GetNextAvailableSlot(appointment_type, start_from) ==
    /\ last = NoCall
    /\ last' = [op |-> "get_next_available_slot", start_from |-> start_from,
                appointment_type |-> appointment_type,
                out |-> get_next_available_slot(appointment_type, start_from)]
    /\ UNCHANGED <<calendar, api, working_hours, slot_interval, callers, minted>>

\* a caller invokes validate_appointment_data and receives its result
ValidateAppointmentData(appointment_data) ==
    /\ last = NoCall
    /\ last' = [op |-> "validate_appointment_data", data |-> appointment_data,
                out |-> validate_appointment_data(appointment_data)]
    /\ UNCHANGED <<calendar, api, working_hours, slot_interval, callers, minted>>

\* a caller invokes create_appointment and receives its result
CreateAppointment(appointment_data) ==
    /\ last = NoCall
    /\ \E booking_id \in FreshUuids :
         last' = [op |-> "create_appointment", data |-> appointment_data,
                  out |-> create_appointment(appointment_data, booking_id)]
    /\ UNCHANGED <<calendar, api, working_hours, slot_interval, callers, minted>>

\* the ids and reasons given to the cancellations
CancelIds == {"ev1", "ev2", "uuid-a"}
CancelReasons == {None, "patient request"}

\* the bounds of the event queries made to the client directly
QueryBounds == {StartOfDay(Combine(d, 0)) : d \in 0..2}

\* a caller invokes CalendlyAPI.get_scheduled_events and receives its
\* result; status is the status of the answer, 0 when no answer arrives
GetScheduledEvents(start_time, end_time) ==
    /\ last = NoCall
    /\ last' = [op |-> "get_scheduled_events", start_time |-> start_time,
                end_time |-> end_time,
                status |-> CASE api = "ok" -> 200
                             [] api = "http_error" -> ServerError
                             [] OTHER -> 0,
                out |-> get_scheduled_events(start_time, end_time)]
    /\ UNCHANGED <<calendar, api, working_hours, slot_interval, callers, minted>>

\* a caller invokes CalendlyAPI.cancel_event and receives its result
CancelEvent(event_uuid, reason) ==
    /\ last = NoCall
    /\ last' = [op |-> "cancel_event", event_uuid |-> event_uuid,
                reason |-> reason,
                status |-> CancelStatus(event_uuid),
                out |-> cancel_event(event_uuid, reason)]
    /\ calendar' = CalendarAfterCancel(event_uuid)
    /\ UNCHANGED <<api, working_hours, slot_interval, callers, minted>>

\* a caller invokes cancel_appointment and receives its result; requests
\* holds what the call sent to the calendar
CancelAppointment(booking_id, reason) ==
    /\ last = NoCall
    /\ last' = [op |-> "cancel_appointment", booking_id |-> booking_id,
                reason |-> reason,
                status |-> CancelStatus(booking_id),
                requests |-> CancelRequests(booking_id, reason),
                out |-> cancel_appointment(booking_id, reason)]
    /\ calendar' = CalendarAfterCancel(booking_id)
    /\ UNCHANGED <<api, working_hours, slot_interval, callers, minted>>

\* the bounds given to the duration filter
DurationBounds ==
    {Unset, 0} \cup {d \in 10..MaxDurationBound : d % 5 = 0}

\* a caller invokes filter_types_by_duration and receives its result
FilterTypesByDuration(min_duration, max_duration) ==
    /\ last = NoCall
    /\ last' = [op |-> "filter_types_by_duration",
                min_duration |-> min_duration, max_duration |-> max_duration,
                out |-> filter_types_by_duration(min_duration, max_duration)]
    /\ UNCHANGED <<calendar, api, working_hours, slot_interval, callers, minted>>

\* the requests the concurrent callers make to create_appointment: a slot
\* of Monday that event ev1 covers and the same time on Sunday, each with a
\* well-formed and a malformed e-mail address
CallerRequests ==
    [appointment_type : {"general_consultation"},
     date : {"2024-01-01", "2024-01-07"},
     time : {"09:30"},
     patient_name : {"Ann"},
     patient_email : {"ann@example.com", "not-an-email"}]

\* the events that come and go while the concurrent callers are followed
CallerEvents == {"ev1"}

\* the slot a request asks for
SlotOf(appointment_data) ==
    <<appointment_data["appointment_type"], appointment_data["date"],
      appointment_data["time"]>>

\* what the calendar holds and how it answers, as a call finds it
Seen == [calendar |-> calendar, api |-> api]

\* the calls in progress that will ask uuid4 for an id
Minting == {c \in Callers : callers[c].pc \in {"check", "book"}}

\* a further call can be followed to its end
CanMint == Len(minted) + Cardinality(Minting) < MaxMinted

\* create_appointment up to the test of is_valid
StartedCall(appointment_data, valid) ==
    IF valid[1]
    THEN [pc |-> "check", op |-> "create_appointment", data |-> appointment_data,
          requests |-> << >>, ids |-> << >>]
    ELSE [pc |-> "done", op |-> "create_appointment", data |-> appointment_data,
          requests |-> << >>, ids |-> << >>,
          out |-> [success |-> FALSE, error |-> valid[2]]]

\* create_appointment that goes on to the slot check whatever the validation says
CreateStart_Unvalidated(c, appointment_data) ==
    /\ callers[c] = Idle
    /\ CanMint
    /\ callers' = [callers EXCEPT ![c] =
                     StartedCall(appointment_data, <<TRUE, None>>)]
    /\ UNCHANGED <<calendar, api, working_hours, slot_interval, last, minted>>

\* caller c invokes create_appointment: the validation, which reads nothing
\* outside the request
CreateStart(c, appointment_data) ==
    /\ callers[c] = Idle
    /\ CanMint
    /\ callers' = [callers EXCEPT ![c] =
                     StartedCall(appointment_data,
                                 validate_appointment_data(appointment_data))]
    /\ UNCHANGED <<calendar, api, working_hours, slot_interval, last, minted>>

\* create_appointment from the result of check_slot_availability to the
\* test of is_available; sent is what the check sent to the calendar
CheckedCall(call, checked, sent, seen) ==
    IF Raised(checked)
    THEN [pc |-> "done", op |-> call.op, data |-> call.data,
          requests |-> call.requests \o sent, ids |-> call.ids, seen |-> seen,
          out |-> checked]
    ELSE IF ~checked.is_available
    THEN [pc |-> "done", op |-> call.op, data |-> call.data,
          requests |-> call.requests \o sent, ids |-> call.ids, seen |-> seen,
          out |-> [success |-> FALSE, error |-> checked.message]]
    ELSE [pc |-> "book", op |-> call.op, data |-> call.data,
          requests |-> call.requests \o sent, ids |-> call.ids, seen |-> seen]

\* the slot check of a request, as create_appointment calls it
CheckRequested(appointment_data) ==
    check_slot_availability(appointment_data["appointment_type"],
                            appointment_data["date"], appointment_data["time"])

\* a slot check that refuses a slot another call has passed its check for
\* or has booked
CreateCheck_Reserving(c) ==
    /\ callers[c].pc = "check"
    /\ callers' = [callers EXCEPT ![c] =
         CheckedCall(callers[c],
                     IF \/ \E o \in Callers \ {c} :
                             /\ callers[o].pc = "book"
                             /\ SlotOf(callers[o].data) = SlotOf(callers[c].data)
                        \/ \E i \in DOMAIN minted :
                             /\ minted[i].by = "create"
                             /\ minted[i].slot = SlotOf(callers[c].data)
                     THEN [is_available |-> FALSE, message |-> "Slot is reserved"]
                     ELSE CheckRequested(callers[c].data),
                     SlotRequests(Combine(StrpDate(callers[c].data["date"]), 0),
                                  callers[c].data["appointment_type"]),
                     Seen)]
    /\ UNCHANGED <<calendar, api, working_hours, slot_interval, last, minted>>

\* caller c's create_appointment checks the slot: the one step of the call
\* that reads the calendar
CreateCheck(c) ==
    /\ callers[c].pc = "check"
    /\ callers' = [callers EXCEPT ![c] =
         CheckedCall(callers[c],
                     CheckRequested(callers[c].data),
                     SlotRequests(Combine(StrpDate(callers[c].data["date"]), 0),
                                  callers[c].data["appointment_type"]),
                     Seen)]
    /\ UNCHANGED <<calendar, api, working_hours, slot_interval, last, minted>>

\* create_appointment returning the result of _simulate_booking
BookedCall(call, booking_result) ==
    [pc |-> "done", op |-> call.op, data |-> call.data,
     requests |-> call.requests, seen |-> call.seen,
     ids |-> Append(call.ids, booking_result.booking_id),
     out |-> booking_result]

\* the booking of a request, as create_appointment makes it
BookRequested(appointment_data, booking_id) ==
    simulate_booking(appointment_data,
                     get_appointment_info(appointment_data["appointment_type"]),
                     Combine(StrpDate(appointment_data["date"]),
                             StrpTime(appointment_data["time"])),
                     booking_id)

\* a booking that enters the appointment in the remote calendar
CreateBook_Recorded(c) ==
    /\ callers[c].pc = "book"
    /\ \E booking_id \in FreshUuids :
         /\ callers' = [callers EXCEPT ![c] =
              BookedCall(callers[c], BookRequested(callers[c].data, booking_id))]
         /\ minted' = Append(minted, [id |-> booking_id, by |-> "create",
                                      slot |-> SlotOf(callers[c].data),
                                      seen |-> callers[c].seen])
    /\ calendar' = calendar \cup {"ev1"}
    /\ UNCHANGED <<api, working_hours, slot_interval, last>>

\* caller c's create_appointment makes the booking and returns it
CreateBook(c) ==
    /\ callers[c].pc = "book"
    /\ \E booking_id \in FreshUuids :
         /\ callers' = [callers EXCEPT ![c] =
              BookedCall(callers[c], BookRequested(callers[c].data, booking_id))]
         /\ minted' = Append(minted, [id |-> booking_id, by |-> "create",
                                      slot |-> SlotOf(callers[c].data),
                                      seen |-> callers[c].seen])
    /\ UNCHANGED <<calendar, api, working_hours, slot_interval, last>>

\* reschedule_appointment as the caller sees it
RescheduledCall(booking_id, result) ==
    [pc |-> "done", op |-> "reschedule_appointment", booking_id |-> booking_id,
     requests |-> << >>, ids |-> <<result.new_booking_id>>, out |-> result]

\* caller c invokes reschedule_appointment and receives its result
Reschedule(c, booking_id, new_date, new_time) ==
    /\ callers[c] = Idle
    /\ CanMint
    /\ \E new_id \in FreshUuids :
         /\ callers' = [callers EXCEPT ![c] =
              RescheduledCall(booking_id,
                              reschedule_appointment(booking_id, new_date,
                                                     new_time, new_id))]
         /\ minted' = Append(minted, [id |-> callers'[c].out.new_booking_id,
                                      by |-> "reschedule", old |-> booking_id])
    /\ UNCHANGED <<calendar, api, working_hours, slot_interval, last>>

\* caller c has consumed the result of its call
CallerReturns(c) ==
    /\ callers[c].pc = "done"
    /\ callers' = [callers EXCEPT ![c] = Idle]
    /\ UNCHANGED <<calendar, api, working_hours, slot_interval, last, minted>>

\* the arguments given to generate_time_slots
GridTimes == {540, 555, 600, 720, 1020}
Intervals == {5, 7, 15, 30, MaxInterval}

\* a caller invokes generate_time_slots and receives its result
GenerateTimeSlots(start_time, end_time, date, interval) ==
    /\ last = NoCall
    /\ last' = [op |-> "generate_time_slots", start_time |-> start_time,
                end_time |-> end_time, date |-> date, interval |-> interval,
                out |-> generate_time_slots(start_time, end_time, date, interval)]
    /\ UNCHANGED <<calendar, api, working_hours, slot_interval, callers, minted>>

\* the offsets the timestamps of the busy slots carry, in minutes
Offsets == {0, 60, 300, 0 - 120}

\* a busy slot of day 0 with an offset on its timestamps
BusyAt(w, off) == [start |-> Stamp(0, w[1], off), end |-> Stamp(0, w[2], off)]

\* the busy lists given to is_slot_available
BusyLists ==
    {<< >>}
    \cup {<<BusyAt(w, off)>> :
            w \in {<<570, 600>>, <<600, 660>>, <<480, 540>>}, off \in Offsets}
    \cup {<<BusyAt(<<480, 540>>, off), BusyAt(<<600, 660>>, off)>> : off \in Offsets}

\* the candidate starts given to is_slot_available
CandidateStarts == {Combine(0, t) : t \in {540, 570, 600, 660}}

\* a caller invokes is_slot_available and receives its result
IsSlotAvailable(slot_start, duration, busy_slots) ==
    /\ last = NoCall
    /\ last' = [op |-> "is_slot_available", slot_start |-> slot_start,
                duration |-> duration, busy_slots |-> busy_slots,
                out |-> is_slot_available(slot_start, duration, busy_slots)]
    /\ UNCHANGED <<calendar, api, working_hours, slot_interval, callers, minted>>

\* the new dates and times given to reschedule_appointment: a Monday, a
\* Sunday and a date that does not exist; a time inside the working day, one
\* after it and one that is none
RescheduleDates == {"2024-01-01", "2024-01-07", "2024-02-30"}
RescheduleTimes == {"09:30", "23:00", "25:00"}

\* reschedule_appointment that asks check_slot_availability for the new slot
RescheduleAppointment_Checked(booking_id, new_date, new_time) ==
    /\ last = NoCall
    /\ \E new_id \in FreshUuids \ {booking_id} :
         last' = [op |-> "reschedule_appointment", booking_id |-> booking_id,
                  new_date |-> new_date, new_time |-> new_time,
                  requests |->
                    IF StrpDate(new_date) = ValueError THEN << >>
                    ELSE SlotRequests(Combine(StrpDate(new_date), 0),
                                      "general_consultation"),
                  out |->
                    IF StrpDate(new_date) = ValueError
                    THEN [success |-> FALSE, error |-> "Invalid date"]
                    ELSE IF Raised(check_slot_availability(
                                     "general_consultation", new_date, new_time))
                    THEN check_slot_availability("general_consultation",
                                                 new_date, new_time)
                    ELSE IF check_slot_availability("general_consultation",
                                                    new_date, new_time).is_available
                    THEN reschedule_appointment(booking_id, new_date, new_time,
                                                new_id)
                    ELSE [success |-> FALSE, error |-> "Slot not available"]]
    /\ UNCHANGED <<calendar, api, working_hours, slot_interval, callers, minted>>

\* a caller invokes reschedule_appointment and receives its result; new_id
\* is what uuid4 returns, an id other than the one the caller holds, and
\* requests holds what the call sent to the calendar: nothing
RescheduleAppointment(booking_id, new_date, new_time) ==
    /\ last = NoCall
    /\ \E new_id \in FreshUuids \ {booking_id} :
         last' = [op |-> "reschedule_appointment", booking_id |-> booking_id,
                  new_date |-> new_date, new_time |-> new_time,
                  requests |-> << >>,
                  out |-> reschedule_appointment(booking_id, new_date, new_time,
                                                 new_id)]
    /\ UNCHANGED <<calendar, api, working_hours, slot_interval, callers, minted>>

\* a caller invokes get_busy_time_slots and receives its result; fetched
\* holds the appointments the call got from get_existing_appointments
GetBusyTimeSlots(date) ==
    /\ last = NoCall
    /\ last' = [op |-> "get_busy_time_slots", date |-> date,
                fetched |-> get_existing_appointments(StartOfDay(date),
                                                      EndOfDay(date)),
                out |-> get_busy_time_slots(date)]
    /\ UNCHANGED <<calendar, api, working_hours, slot_interval, callers, minted>>

\* the caller has consumed the result
Return ==
    /\ last # NoCall
    /\ last' = NoCall
    /\ UNCHANGED <<calendar, api, working_hours, slot_interval, callers, minted>>

\* somebody books an event in the remote calendar
EventCreated(id) ==
    /\ last = NoCall
    /\ id \notin calendar
    /\ calendar' = calendar \cup {id}
    /\ UNCHANGED <<api, working_hours, slot_interval, last, callers, minted>>

\* an event disappears from the remote calendar
EventRemoved(id) ==
    /\ last = NoCall
    /\ id \in calendar
    /\ calendar' = calendar \ {id}
    /\ UNCHANGED <<api, working_hours, slot_interval, last, callers, minted>>

\* the remote calendar starts answering differently
ApiChanges(a) ==
    /\ last = NoCall
    /\ a # api
    /\ api' = a
    /\ UNCHANGED <<calendar, working_hours, slot_interval, last, callers, minted>>

Next ==
    \/ \E date \in DateTimes, t \in TypeIds : GetAvailableSlots(date, t)
    \/ \E start_date \in RangeStarts, t \in RangeTypeIds :
         \E end_date \in RangeEnds(start_date) :
            GetAvailableSlotsRange(start_date, end_date, t)
    \/ \E start_from \in RangeStarts, t \in RangeTypeIds :
         GetNextAvailableSlot(t, start_from)
    \/ \E appointment_data \in BookingRequests : CreateAppointment(appointment_data)
    \/ Return
    \/ \E id \in EventIds : EventCreated(id)
    \/ \E id \in EventIds : EventRemoved(id)
    \/ \E a \in ApiStates : ApiChanges(a)

Spec == Init /\ [][Next]_vars

\* the working-hours table customised to one window on every weekday
CustomWindows == {<<"09:00", "17:00">>, <<"08:00", "12:00">>, <<"20:00", "23:30">>}

CustomTable(w) ==
    [d \in DOMAIN DefaultWorkingHours |->
       IF d \in {"saturday", "sunday"} THEN DefaultWorkingHours[d]
       ELSE DefaultDay(w[1], w[2])]

InitCustom ==
    /\ calendar = {}
    /\ api = "ok"
    /\ working_hours \in {CustomTable(w) : w \in CustomWindows}
    /\ slot_interval = 15
    /\ last = NoCall
    /\ callers = [c \in Callers |-> Idle]
    /\ minted = << >>

NextCustom ==
    \/ \E date \in DateTimes, t \in TypeIds : GetAvailableSlots(date, t)
    \/ Return
    \/ \E id \in EventIds : EventCreated(id)
    \/ \E id \in EventIds : EventRemoved(id)
    \/ \E a \in ApiStates : ApiChanges(a)

SpecCustom == InitCustom /\ [][NextCustom]_vars

\* the calendar client and the cancellation that is built on it
NextClient ==
    \/ \E start_time \in QueryBounds, end_time \in QueryBounds :
         GetScheduledEvents(start_time, end_time)
    \/ \E id \in CancelIds, reason \in CancelReasons : CancelEvent(id, reason)
    \/ \E id \in CancelIds, reason \in CancelReasons : CancelAppointment(id, reason)
    \/ Return
    \/ \E id \in EventIds : EventCreated(id)
    \/ \E id \in EventIds : EventRemoved(id)
    \/ \E a \in ApiStates : ApiChanges(a)

SpecClient == Init /\ [][NextClient]_vars

\* the duration filter of the type handler alone
NextFilter ==
    \/ \E min_duration \in DurationBounds, max_duration \in DurationBounds :
         FilterTypesByDuration(min_duration, max_duration)
    \/ Return

SpecFilter == Init /\ [][NextFilter]_vars

\* the booking service under concurrent callers, create_appointment taken
\* step by step
NextBooking ==
    \/ \E c \in Callers, appointment_data \in CallerRequests :
         CreateStart(c, appointment_data)
    \/ \E c \in Callers : CreateCheck(c)
    \/ \E c \in Callers : CreateBook(c)
    \/ \E c \in Callers, booking_id \in MintedIds \cup {"legacy-id"} :
         Reschedule(c, booking_id, "2024-01-07", "09:30")
    \/ \E c \in Callers : CallerReturns(c)
    \/ \E id \in CallerEvents : EventCreated(id)
    \/ \E id \in CallerEvents : EventRemoved(id)
    \/ \E a \in ApiStates : ApiChanges(a)

SpecBooking == Init /\ [][NextBooking]_vars

\* the two pure functions of the slot engine alone
NextEngine ==
    \/ \E start_time \in GridTimes, end_time \in GridTimes,
          date \in {Combine(0, 0), Combine(1, 900)}, interval \in Intervals :
         GenerateTimeSlots(start_time, end_time, date, interval)
    \/ \E slot_start \in CandidateStarts, duration \in {15, 30, 45, 60},
          busy_slots \in BusyLists :
         IsSlotAvailable(slot_start, duration, busy_slots)
    \/ Return

SpecEngine == Init /\ [][NextEngine]_vars

\* rescheduling and cancelling against a changing calendar
NextReschedule ==
    \/ \E id \in CancelIds, d \in RescheduleDates, t \in RescheduleTimes :
         RescheduleAppointment(id, d, t)
    \/ \E id \in CancelIds, reason \in CancelReasons :
         CancelAppointment(id, reason)
    \/ Return
    \/ \E id \in EventIds : EventCreated(id)
    \/ \E id \in EventIds : EventRemoved(id)
    \/ \E a \in ApiStates : ApiChanges(a)

SpecReschedule == Init /\ [][NextReschedule]_vars

\* the schedule source and the single-day query that reads it
NextSchedule ==
    \/ \E date \in DateTimes : GetBusyTimeSlots(date)
    \/ \E date \in DateTimes, t \in TypeIds : GetAvailableSlots(date, t)
    \/ Return
    \/ \E id \in EventIds : EventCreated(id)
    \/ \E id \in EventIds : EventRemoved(id)
    \/ \E a \in ApiStates : ApiChanges(a)

SpecSchedule == Init /\ [][NextSchedule]_vars

\* the validation alone, applied to requests of every shape
NextValidate ==
    \/ \E appointment_data \in ValidationRequests :
         ValidateAppointmentData(appointment_data)
    \/ Return

SpecValidate == Init /\ [][NextValidate]_vars

---------------------------------------------------------------------------
(* What the properties speak about *)

\* last is a get_available_slots call that returned a slot list
IsSlotsResult ==
    /\ last.op = "get_available_slots"
    /\ "available_slots" \in DOMAIN last.out

\* the working window of a day, in minutes of the day
WindowStart(day) == StrpTime(working_hours[DayName(day)].start)
WindowEnd(day) == StrpTime(working_hours[DayName(day)].end)

IsWorkingDay(day) == working_hours[DayName(day)].available

\* the busy intervals the schedule source holds for a day: the wall-clock
\* start and end of the active events the calendar lists for that day
BusyHeld(day) ==
    IF api # "ok" THEN {}
    ELSE {[start |-> EventPool[i].start_time.wall, end |-> EventPool[i].end_time.wall] :
            i \in {j \in DOMAIN EventPool :
                     /\ EventPool[j].id \in calendar
                     /\ EventPool[j].status = "active"
                     /\ DateOf(Instant(EventPool[j].start_time)) = day}}

\* start of a returned slot as a minute of the day, read off its start_time
SlotStart(slot) == StrpTime(slot.start_time)

\* the 15-minute grid candidates of a day that fit a duration and meet no
\* busy interval
FreeStarts(day, d) ==
    {c \in {WindowStart(day) + 15 * k :
              k \in 0..((WindowEnd(day) - WindowStart(day) - 1) \div 15)} :
       /\ c + d <= WindowEnd(day)
       /\ \A b \in BusyHeld(day) :
            ~(Combine(day, c) < b.end /\ Combine(day, c) + d > b.start)}

---------------------------------------------------------------------------
(* C1 *)

\* C1: every slot get_available_slots returns starts at or after the start
\* of the day's working window and ends (start + duration) at or before its
\* end, for every working window and duration.
C1_SlotInsideWindow ==
    IsSlotsResult =>
      \A i \in DOMAIN last.out.available_slots :
        LET start == SlotStart(last.out.available_slots[i])
            day == DateOf(last.date)
        IN /\ start >= WindowStart(day)
           /\ start + last.out.duration <= WindowEnd(day)

---------------------------------------------------------------------------
(* C2 *)

\* C2: no slot get_available_slots returns overlaps, as a half-open
\* interval, a busy interval the schedule source holds for the date
\* (busy intervals taken by their wall-clock fields).
C2_NoOverlap ==
    IsSlotsResult =>
      \A i \in DOMAIN last.out.available_slots :
        LET day == DateOf(last.date)
            start == Combine(day, SlotStart(last.out.available_slots[i]))
            end == start + last.out.duration
        IN \A b \in BusyHeld(day) : ~(start < b.end /\ end > b.start)

\* a returned slot list on a day for which a busy interval is held
C2_Witness ==
    /\ IsSlotsResult
    /\ last.out.available_slots # << >>
    /\ BusyHeld(DateOf(last.date)) # {}

---------------------------------------------------------------------------
(* C3 *)

SlotStarts(slots) == [i \in DOMAIN slots |-> slots[i].start_time]

\* C3: on a working day with a known type the returned starts are exactly
\* the free grid candidates, each once, each with end = start + duration;
\* with the window 09:00-17:00, duration 30 and the single busy interval
\* 09:30-10:00 the list begins 09:00, 10:00, 10:15.
C3_ExactlyFreeCandidates ==
    (IsSlotsResult /\ IsWorkingDay(DateOf(last.date))) =>
      LET slots == last.out.available_slots
          day == DateOf(last.date)
          d == APPOINTMENT_TYPES[last.appointment_type].duration
      IN /\ {SlotStart(slots[i]) : i \in DOMAIN slots} = FreeStarts(day, d)
         /\ Len(slots) = Cardinality(FreeStarts(day, d))
         /\ \A i \in DOMAIN slots :
              slots[i].end_time = FormatTime(SlotStart(slots[i]) + d)
         /\ (/\ d = 30
             /\ WindowStart(day) = 540 /\ WindowEnd(day) = 1020
             /\ BusyHeld(day) = {[start |-> Combine(day, 570),
                                  end |-> Combine(day, 600)]})
            => SubSeq(SlotStarts(slots), 1, 3) = <<"09:00", "10:00", "10:15">>

\* the example of the specification: Monday, 30 minutes, busy 09:30-10:00
C3_Witness ==
    /\ IsSlotsResult
    /\ DateOf(last.date) = 0
    /\ last.out.duration = 30
    /\ BusyHeld(0) = {[start |-> 570, end |-> 600]}
    /\ Len(last.out.available_slots) >= 3

---------------------------------------------------------------------------
(* C7 *)

\* C7: for a known type on a day that is not a working day
\* get_available_slots returns, without error, an empty slot list and the
\* indication that the day is not a working day.
C7_NonWorkingDay ==
    (/\ last.op = "get_available_slots"
     /\ last.appointment_type \in DOMAIN APPOINTMENT_TYPES
     /\ ~IsWorkingDay(DateOf(last.date)))
    => /\ ~Raised(last.out)
       /\ "error" \notin DOMAIN last.out
       /\ "available_slots" \in DOMAIN last.out
       /\ last.out.available_slots = << >>
       /\ "message" \in DOMAIN last.out
       /\ last.out.message = "Not a working day"

\* a call for a known type on a Sunday while the calendar cannot be reached
C7_Witness ==
    /\ last.op = "get_available_slots"
    /\ last.appointment_type \in DOMAIN APPOINTMENT_TYPES
    /\ ~IsWorkingDay(DateOf(last.date))
    /\ api # "ok"

---------------------------------------------------------------------------
(* C4 *)

\* the (day, start) pairs of the available slots of the days from..from+30
SlotsInHorizon(start_from, appointment_type) ==
    IF appointment_type \notin DOMAIN APPOINTMENT_TYPES THEN {}
    ELSE UNION {{<<day, c>> :
                   c \in FreeStarts(day, APPOINTMENT_TYPES[appointment_type].duration)} :
                day \in {x \in DateOf(start_from)..(DateOf(start_from) + 30) :
                           IsWorkingDay(x)}}

LexLeq(p, q) == p[1] < q[1] \/ (p[1] = q[1] /\ p[2] <= q[2])

\* C4: get_next_available_slot returns the lexicographically earliest
\* (date, start time) among the available slots of the days from..from+30
\* and answers found = false only when those days have no available slot.
C4_EarliestSlot ==
    (last.op = "get_next_available_slot" /\ ~Raised(last.out)) =>
      LET all == SlotsInHorizon(last.start_from, last.appointment_type)
      IN IF last.out.found
         THEN \E p \in all :
                /\ \A q \in all : LexLeq(p, q)
                /\ last.out.date = FormatDate(p[1])
                /\ last.out.slot.start_time = FormatTime(p[2])
         ELSE all = {}

\* a search from Tuesday 2024-01-02 while that day is booked from 09:00 to
\* 17:00: the slot found lies on a later day
C4_Witness ==
    /\ last.op = "get_next_available_slot"
    /\ ~Raised(last.out)
    /\ last.out.found
    /\ DateOf(last.start_from) = 1
    /\ last.out.date # FormatDate(1)

---------------------------------------------------------------------------
(* C5 *)

IsRangeResult ==
    last.op = "get_available_slots_range" /\ ~Raised(last.out)

\* C5: no entry of the sequence get_available_slots_range returns has an
\* empty available_slots list.
C5_NoEmptyDay ==
    IsRangeResult =>
      \A i \in DOMAIN last.out.results :
        /\ "available_slots" \in DOMAIN last.out.results[i]
        /\ last.out.results[i].available_slots # << >>

\* a range over at least two days of which some day is left out
C5_Witness ==
    /\ IsRangeResult
    /\ last.appointment_type \in DOMAIN APPOINTMENT_TYPES
    /\ last.out.results # << >>
    /\ last.start_date <= last.end_date
    /\ Len(last.out.results) < DateOf(last.end_date) - DateOf(last.start_date) + 1
    /\ TimeOf(last.start_date) <= TimeOf(last.end_date)

---------------------------------------------------------------------------
(* C6 *)

\* the days from start's date to end's date that have an available slot
DaysWithSlots(start_date, end_date, appointment_type) ==
    IF appointment_type \notin DOMAIN APPOINTMENT_TYPES THEN {}
    ELSE {day \in DateOf(start_date)..DateOf(end_date) :
            /\ IsWorkingDay(day)
            /\ FreeStarts(day, APPOINTMENT_TYPES[appointment_type].duration) # {}}

\* C6: get_available_slots_range returns one entry for every day from
\* start's date to end's date inclusive that has an available slot, in
\* ascending date order, and no other entry, whatever the times of day of
\* start and end.
C6_EveryDayOfSpan ==
    IsRangeResult =>
      LET res == last.out.results
          days == DaysWithSlots(last.start_date, last.end_date,
                                last.appointment_type)
      IN /\ {res[i].date : i \in DOMAIN res} = {FormatDate(day) : day \in days}
         /\ Len(res) = Cardinality(days)
         /\ \A i, j \in DOMAIN res :
              i < j => \E di, dj \in days : /\ di < dj
                                            /\ res[i].date = FormatDate(di)
                                            /\ res[j].date = FormatDate(dj)

---------------------------------------------------------------------------
(* C8 *)

---------------------------------------------------------------------------
(* C9 *)

IsCreateResult == last.op = "create_appointment" /\ ~Raised(last.out)

\* the request satisfies the five checks of the validation
WellFormed(data) ==
    /\ \A f \in FieldNames : f \in DOMAIN data /\ data[f] # ""
    /\ data["appointment_type"] \in DOMAIN APPOINTMENT_TYPES
    /\ StrpDate(data["date"]) # ValueError
    /\ StrpTime(data["time"]) # ValueError
    /\ ContainsAt(data["patient_email"])

\* the time the request asks for starts a slot of the availability of its day
StartsFreeSlot(data) ==
    LET day == StrpDate(data["date"])
    IN /\ IsWorkingDay(day)
       /\ StrpTime(data["time"]) \in
            FreeStarts(day, APPOINTMENT_TYPES[data["appointment_type"]].duration)

\* C9: create_appointment returns success exactly when the request passes
\* the validation and the requested start time starts a slot of the day's
\* availability; the record then has status scheduled, the requested start
\* time and end_time = start_time + catalog duration.
C9_SuccessIffValidAndFree ==
    IsCreateResult =>
      /\ last.out.success <=> (WellFormed(last.data) /\ StartsFreeSlot(last.data))
      /\ last.out.success =>
           LET det == last.out.appointment_details
           IN /\ det.status = "scheduled"
              /\ det.start_time = last.data["time"]
              /\ det.end_time =
                   FormatTime(StrpTime(last.data["time"])
                              + APPOINTMENT_TYPES[last.data["appointment_type"]].duration)

---------------------------------------------------------------------------
(* C10 *)

\* the check of the validation a request fails first, 0 if none
FirstFailingCheck(data) ==
    CASE \E f \in FieldNames : f \notin DOMAIN data \/ data[f] = "" -> 1
      [] data["appointment_type"] \notin DOMAIN APPOINTMENT_TYPES -> 2
      [] StrpDate(data["date"]) = ValueError -> 3
      [] StrpTime(data["time"]) = ValueError -> 4
      [] ~ContainsAt(data["patient_email"]) -> 5
      [] OTHER -> 0

\* the required field that is reported for a request failing check 1
FirstMissingField(data) ==
    CASE MissingField(data, "appointment_type") -> "appointment_type"
      [] MissingField(data, "date") -> "date"
      [] MissingField(data, "time") -> "time"
      [] MissingField(data, "patient_name") -> "patient_name"
      [] OTHER -> "patient_email"

\* C10: validate_appointment_data reports the first failing check in the
\* order required fields (type, date, time, name, e-mail), type in the
\* catalog, date format, time format, '@' in the e-mail, and answers valid
\* exactly when no check fails.
C10_FailFastOrder ==
    last.op = "validate_appointment_data" =>
      LET n == FirstFailingCheck(last.data)
      IN /\ last.out[1] <=> (n = 0)
         /\ n = 1 => last.out[2] = "Missing required field: "
                                     \o FirstMissingField(last.data)
         /\ n = 2 => last.out[2] = "Invalid appointment type: "
                                     \o last.data["appointment_type"]
         /\ n = 3 => last.out[2] = "Invalid date format. Use YYYY-MM-DD"
         /\ n = 4 => last.out[2] = "Invalid time format. Use HH:MM"
         /\ n = 5 => last.out[2] = "Invalid email format"

\* a request whose date, time and e-mail are all malformed: the date is reported
C10_Witness ==
    /\ last.op = "validate_appointment_data"
    /\ FirstFailingCheck(last.data) = 3
    /\ StrpTime(last.data["time"]) = ValueError
    /\ ~ContainsAt(last.data["patient_email"])
    /\ ~last.out[1]

---------------------------------------------------------------------------
(* What the properties about the concurrent callers speak about *)

\* caller c is in a create_appointment call, or has its result
InCreate(c) == callers[c].pc # "idle" /\ callers[c].op = "create_appointment"

\* caller c holds the result of a create_appointment call
CreateDone(c) == InCreate(c) /\ callers[c].pc = "done"

\* caller c holds a successful booking
Booked(c) ==
    /\ CreateDone(c)
    /\ "success" \in DOMAIN callers[c].out
    /\ callers[c].out.success

---------------------------------------------------------------------------
(* C11 *)

\* C11: a create_appointment call whose request fails the validation returns
\* the validation failure without a slot check: it goes to no further step
\* and sends no request to the calendar.
C11_ValidationFirst ==
    \A c \in Callers :
      (InCreate(c) /\ ~validate_appointment_data(callers[c].data)[1]) =>
        /\ callers[c].pc = "done"
        /\ callers[c].out =
             [success |-> FALSE,
              error |-> validate_appointment_data(callers[c].data)[2]]
        /\ callers[c].requests = << >>

\* a request with a malformed e-mail address for a working day, refused
\* while the calendar is answering
C11_Witness ==
    \E c \in Callers :
      /\ CreateDone(c)
      /\ callers[c].data["patient_email"] = "not-an-email"
      /\ callers[c].data["date"] = "2024-01-01"
      /\ callers[c].out.error = "Invalid email format"
      /\ api = "ok"

---------------------------------------------------------------------------
(* C12 *)

\* a create_appointment call that found the calendar as an earlier booking
\* of the same slot found it
SameSourceAsBooking(c, i) ==
    /\ minted[i].by = "create"
    /\ minted[i].slot = SlotOf(callers[c].data)
    /\ "seen" \in DOMAIN callers[c]
    /\ minted[i].seen = callers[c].seen

\* a call for a slot that was booked before succeeds too unless the calendar
\* has changed in between
RebookedUnlessChanged ==
    \A c \in Callers :
      CreateDone(c) =>
        \A i \in DOMAIN minted : SameSourceAsBooking(c, i) => Booked(c)

\* C12: create_appointment leaves the busy-interval source as it is, so the
\* second of two calls for the same date, time and type fails as unavailable
\* only if the source was changed between the calls and succeeds otherwise.
C12_BookingLeavesSource ==
    /\ []RebookedUnlessChanged
    /\ [][callers' # callers => (calendar' = calendar /\ api' = api)]_vars

\* the same slot booked a second time, the calendar being as the first
\* booking found it
C12_Witness ==
    \E c \in Callers :
      /\ Booked(c)
      /\ \E i \in DOMAIN minted :
           /\ SameSourceAsBooking(c, i)
           /\ minted[i].id # callers[c].out.booking_id

---------------------------------------------------------------------------
(* C13 *)

\* the slot of a request is free in the calendar as it is now
SlotFree(appointment_data) ==
    /\ ~Raised(CheckRequested(appointment_data))
    /\ CheckRequested(appointment_data).is_available

\* C13: nothing guards the step from the check to the booking: a call passes
\* its check exactly when the calendar shows the slot free at that moment,
\* whatever the other caller holds, and a call that has passed books; so
\* two callers can both be given the same slot.
C13_CheckThenCreateUnguarded ==
    [][\A c \in Callers :
         /\ (callers[c].pc = "check" /\ callers'[c].pc # "check")
            => (callers'[c].pc = "book" <=> SlotFree(callers[c].data))
         /\ (callers[c].pc = "book" /\ callers'[c].pc # "book")
            => callers'[c].out.success]_vars

\* both callers hold a successful booking of the same slot, under two ids
C13_Witness ==
    /\ \A c \in Callers : Booked(c)
    /\ SlotOf(callers[1].data) = SlotOf(callers[2].data)
    /\ callers[1].out.booking_id # callers[2].out.booking_id
    /\ callers[1].out.appointment_details.status = "scheduled"
    /\ callers[2].out.appointment_details.status = "scheduled"

---------------------------------------------------------------------------
(* C14 *)

\* C14: when the calendar fetch of a get_available_slots call fails, the
\* call reports no slot of the day as available and returns a result that
\* carries the error.
C14_FetchFailureSurfaced ==
    (/\ last.op = "get_available_slots"
     /\ last.requests # << >>
     /\ api # "ok")
    => /\ "error" \in DOMAIN last.out
       /\ ~HasAvailableSlots(last.out)

---------------------------------------------------------------------------
(* C17 *)

\* the result of a create_appointment call is whole: a booking with its id
\* and details, or a failure with its message and no id
WholeResult(out) ==
    /\ out.success = TRUE <=>
         ("booking_id" \in DOMAIN out /\ "appointment_details" \in DOMAIN out)
    /\ out.success = FALSE <=>
         ("error" \in DOMAIN out /\ "booking_id" \notin DOMAIN out)

\* C17: create_appointment leaves no partial booking: its result has a
\* booking_id and appointment_details exactly when success is true, an error
\* and no booking_id exactly when success is false, and the call has asked
\* for an id only if it returns the booking that carries it.
C17_NoPartialBooking ==
    \A c \in Callers :
      InCreate(c) =>
        IF Booked(c)
        THEN /\ WholeResult(callers[c].out)
             /\ callers[c].ids = <<callers[c].out.booking_id>>
        ELSE /\ callers[c].ids = << >>
             /\ (CreateDone(c) /\ ~Raised(callers[c].out))
                => WholeResult(callers[c].out)

\* one caller holds a booking while the other was refused the slot
C17_Witness ==
    \E c \in Callers, o \in Callers :
      /\ Booked(c)
      /\ CreateDone(o)
      /\ "error" \in DOMAIN callers[o].out
      /\ "seen" \in DOMAIN callers[o]
      /\ callers[o].seen.api = "ok"

---------------------------------------------------------------------------
(* C18 *)

\* C18: for every date, get_available_slots with a type id that is not in
\* the catalog returns the invalid-appointment-type error and has sent no
\* request to the calendar.
C18_UnknownTypeFirst ==
    (/\ last.op = "get_available_slots"
     /\ last.appointment_type \notin DOMAIN APPOINTMENT_TYPES)
    => /\ last.out = [error |-> TRUE,
                      message |-> "Invalid appointment type: "
                                    \o last.appointment_type]
       /\ last.requests = << >>

\* an unknown type asked for on a day that is not a working day
C18_Witness ==
    /\ last.op = "get_available_slots"
    /\ last.appointment_type \notin DOMAIN APPOINTMENT_TYPES
    /\ ~IsWorkingDay(DateOf(last.date))
    /\ "error" \in DOMAIN last.out

---------------------------------------------------------------------------
(* C15 *)

\* last is a call of the calendar client whose request failed
ClientCallFailed ==
    /\ last.op \in {"get_scheduled_events", "cancel_event"}
    /\ (last.status = 0 \/ last.status >= 400)

\* C15: for every failed calendar request, with or without an answer, the
\* client returns {error: true, message, status_code} instead of raising,
\* and status_code is the HTTP status whenever an answer was received.
C15_UniformError ==
    ClientCallFailed =>
      /\ ~Raised(last.out)
      /\ DOMAIN last.out = {"error", "message", "status_code"}
      /\ last.out.error = TRUE
      /\ last.status # 0 => last.out.status_code = last.status

---------------------------------------------------------------------------
(* C16 *)

\* C16: cancel_appointment sends the cancellation to the calendar once; if
\* the cancellation fails in any way it returns {success: false, error:
\* message}, otherwise success with the booking id and the reason given.
C16_CancelWrapped ==
    last.op = "cancel_appointment" =>
      /\ Len(last.requests) = 1
      /\ IF last.status = 0 \/ last.status >= 400
         THEN /\ ~Raised(last.out)
              /\ DOMAIN last.out = {"success", "error"}
              /\ last.out.success = FALSE
         ELSE /\ last.out.success = TRUE
              /\ last.out.booking_id = last.booking_id
              /\ last.out.cancellation_reason = last.reason

---------------------------------------------------------------------------
(* C19 *)

\* C19: every id the booking service hands out, as booking_id of a
\* successful create_appointment or as new_booking_id of a
\* reschedule_appointment, differs from every id handed out before and, for
\* a reschedule, from the old booking id passed in.
C19_IdsNeverReused ==
    /\ \A i \in DOMAIN minted, j \in DOMAIN minted :
         i < j => minted[i].id # minted[j].id
    /\ \A i \in DOMAIN minted :
         minted[i].by = "reschedule" => minted[i].id # minted[i].old
    /\ \A c \in Callers :
         (callers[c].pc = "done" /\ callers[c].op = "reschedule_appointment")
           => /\ callers[c].out.new_booking_id # callers[c].out.old_booking_id
              /\ callers[c].out.new_booking_id \in MintedIds

\* a booking made and then rescheduled under its own id
C19_Witness ==
    /\ Len(minted) = 2
    /\ minted[1].by = "create"
    /\ minted[2].by = "reschedule"
    /\ minted[2].old = minted[1].id

---------------------------------------------------------------------------
(* C20 *)

\* a duration lies within the bounds, both inclusive, an unset bound being
\* no bound
WithinBounds(d, min_duration, max_duration) ==
    /\ (min_duration = Unset \/ min_duration <= d)
    /\ (max_duration = Unset \/ d <= max_duration)

\* C20: filter_types_by_duration(min, max) returns, in catalog order,
\* exactly the types whose duration d has min <= d <= max, where only an
\* unset bound is no bound and a bound that is set, 0 included, applies.
C20_InclusiveBounds ==
    last.op = "filter_types_by_duration" =>
      last.out = SelectSeq(list_all_types,
                           LAMBDA t : WithinBounds(t.duration, last.min_duration,
                                                   last.max_duration))

---------------------------------------------------------------------------
(* C21 *)

\* no appointment type can be booked at the slot in the state at hand
SlotRefused(date_str, time_str) ==
    \A i \in DOMAIN TypeKeys :
       /\ ~Raised(check_slot_availability(TypeKeys[i], date_str, time_str))
       /\ ~check_slot_availability(TypeKeys[i], date_str, time_str).is_available

\* C21: reschedule_appointment answers every booking id, new date and new
\* time, whatever the state of the calendar, with the success descriptor
\* that carries the old id, a new id, the date and the time it was given,
\* and has sent no request to the slot engine or the calendar.
C21_RescheduleUnvalidated ==
    last.op = "reschedule_appointment" =>
       /\ last.out.success
       /\ last.out.old_booking_id = last.booking_id
       /\ last.out.new_booking_id \in Uuids
       /\ last.out.new_date = last.new_date
       /\ last.out.new_time = last.new_time
       /\ last.requests = << >>

\* a reschedule onto Monday 09:30, which ev1 keeps busy
C21_Witness ==
    /\ last.op = "reschedule_appointment"
    /\ last.new_date = "2024-01-01"
    /\ last.new_time = "09:30"
    /\ api = "ok"
    /\ "ev1" \in calendar
    /\ SlotRefused(last.new_date, last.new_time)
    /\ last.out.success

---------------------------------------------------------------------------
(* C22 *)

\* the number of points start + k * interval, k = 0, 1, .., before end
PointsBefore(start, end, interval) ==
    IF start >= end THEN 0 ELSE (end - start + interval - 1) \div interval

\* C22: for a positive interval generate_time_slots returns exactly the
\* points start + k * interval, k = 0, 1, 2, .., that lie strictly before
\* end, on the given date and in ascending order: nothing when start >= end,
\* and never end itself.
C22_GridPoints ==
    last.op = "generate_time_slots" =>
      /\ last.out =
           [k \in 1..PointsBefore(last.start_time, last.end_time, last.interval)
              |-> Combine(DateOf(last.date), last.start_time)
                    + (k - 1) * last.interval]
      /\ \A k \in DOMAIN last.out :
           last.out[k] < Combine(DateOf(last.date), last.end_time)
      /\ last.start_time >= last.end_time => last.out = << >>

\* a window that the interval divides, asked for a date with a time of day
C22_Witness ==
    /\ last.op = "generate_time_slots"
    /\ last.start_time < last.end_time
    /\ (last.end_time - last.start_time) % last.interval = 0
    /\ last.interval > 1
    /\ TimeOf(last.date) # 0
    /\ Len(last.out) = (last.end_time - last.start_time) \div last.interval

---------------------------------------------------------------------------
(* C23 *)

\* C23: the slots of every get_available_slots result are in strictly
\* ascending order of start time, no start occurring twice, so the first
\* slot is the earliest available start of the day.
C23_AscendingStarts ==
    IsSlotsResult =>
      /\ \A i \in DOMAIN last.out.available_slots :
           \A j \in DOMAIN last.out.available_slots :
             i < j => SlotStart(last.out.available_slots[i])
                        < SlotStart(last.out.available_slots[j])
      /\ \A i \in DOMAIN last.out.available_slots :
           SlotStart(last.out.available_slots[1])
             <= SlotStart(last.out.available_slots[i])

\* a slot list with a gap where a busy interval lies
C23_Witness ==
    /\ IsSlotsResult
    /\ Len(last.out.available_slots) >= 3
    /\ BusyHeld(DateOf(last.date)) # {}
    /\ \E i \in 1..(Len(last.out.available_slots) - 1) :
         SlotStart(last.out.available_slots[i + 1])
           > SlotStart(last.out.available_slots[i]) + slot_interval

---------------------------------------------------------------------------
(* C24 *)

\* a busy list with the offset of every timestamp replaced
Reoffset(busy_slots, off) ==
    [i \in DOMAIN busy_slots |->
       [start |-> [wall |-> busy_slots[i].start.wall, off |-> off],
        end |-> [wall |-> busy_slots[i].end.wall, off |-> off]]]

\* C24: is_slot_available looks at the wall-clock fields of the busy
\* timestamps only: busy lists that differ in nothing but the offsets of
\* their timestamps give the same answer for the same start and duration.
C24_OffsetsStripped ==
    last.op = "is_slot_available" =>
      \A off \in Offsets :
        is_slot_available(last.slot_start, last.duration,
                          Reoffset(last.busy_slots, off)) = last.out

\* a candidate refused for a busy slot whose instant, five hours away from
\* its wall-clock time, would not meet it
C24_Witness ==
    /\ last.op = "is_slot_available"
    /\ last.out = FALSE
    /\ Len(last.busy_slots) = 1
    /\ last.busy_slots[1].start.off = 300
    /\ ~Overlaps(last.slot_start, last.slot_start + last.duration,
                 Instant(last.busy_slots[1].start),
                 Instant(last.busy_slots[1].end))

---------------------------------------------------------------------------
(* C25 *)

\* the day a date string written by strftime denotes
DayOfDate(s) == CHOOSE day \in 0..(MaxDay + SearchDays + 1) : FormatDate(day) = s

\* C25: the slot get_next_available_slot returns starts inside the searched
\* interval: not before search_from and not after search_from + 30 days.
C25_SlotInsideSearch ==
    (/\ last.op = "get_next_available_slot"
     /\ ~Raised(last.out)
     /\ last.out.found)
    => /\ Combine(DayOfDate(last.out.date), SlotStart(last.out.slot))
            >= last.start_from
       /\ Combine(DayOfDate(last.out.date), SlotStart(last.out.slot))
            <= last.start_from + SearchDays * MinutesPerDay

---------------------------------------------------------------------------
(* C26 *)

\* C26: once reschedule_appointment has returned success for an old id, a
\* cancellation has been issued for that id and the booking it names is no
\* longer scheduled in the calendar.
C26_OldIdRetired ==
    (last.op = "reschedule_appointment" /\ last.out.success) =>
       /\ \E i \in DOMAIN last.requests :
            last.requests[i].endpoint
              = "/scheduled_events/" \o last.booking_id \o "/cancellation"
       /\ last.booking_id \notin calendar

---------------------------------------------------------------------------
(* C27 *)

\* the positions of the fetched appointments whose status is active
ActivePositions(appointments) ==
    {i \in DOMAIN appointments : appointments[i].status = "active"}

\* C27: get_busy_time_slots returns exactly the (start, end) pairs of the
\* fetched events whose status is active, so that an event of another
\* status removes no slot from the result of get_available_slots.
C27_OnlyActiveBusy ==
    /\ (last.op = "get_busy_time_slots" /\ ~Raised(last.out)) =>
         /\ Len(last.out.busy_slots)
              = Cardinality(ActivePositions(last.fetched.appointments))
         /\ {last.out.busy_slots[i] : i \in DOMAIN last.out.busy_slots}
              = {[start |-> last.fetched.appointments[i].start_time,
                  end |-> last.fetched.appointments[i].end_time] :
                   i \in ActivePositions(last.fetched.appointments)}
    /\ (IsSlotsResult /\ IsWorkingDay(DateOf(last.date))) =>
         {SlotStart(last.out.available_slots[i]) :
            i \in DOMAIN last.out.available_slots}
           = FreeStarts(DateOf(last.date), last.out.duration)

\* a day for which an active and a cancelled event are fetched
C27_Witness ==
    /\ last.op = "get_busy_time_slots"
    /\ ~Raised(last.out)
    /\ Len(last.fetched.appointments) = 2
    /\ \E i \in DOMAIN last.fetched.appointments :
         last.fetched.appointments[i].status = "canceled"
    /\ Len(last.out.busy_slots) = 1

---------------------------------------------------------------------------
(* C28 *)

\* C28: for a type id that is not in the catalog get_available_slots_range
\* returns the empty sequence and get_next_available_slot returns found =
\* false with its no-available-slots message, for every range, so that the
\* unknown type is not reported as an error.
C28_UnknownTypeLooksEmpty ==
    /\ (/\ last.op = "get_available_slots_range"
        /\ last.appointment_type \notin DOMAIN APPOINTMENT_TYPES)
       => last.out = [results |-> << >>]
    /\ (/\ last.op = "get_next_available_slot"
        /\ last.appointment_type \notin DOMAIN APPOINTMENT_TYPES)
       => last.out =
            [found |-> FALSE,
             message |-> "No available slots found in the next 30 days for "
                           \o last.appointment_type]

\* a range of several days asked for an unknown type, although the same
\* range has free slots for the known types
C28_Witness ==
    /\ last.op = "get_available_slots_range"
    /\ last.appointment_type \notin DOMAIN APPOINTMENT_TYPES
    /\ DateOf(last.end_date) > DateOf(last.start_date)
    /\ SlotsInHorizon(last.start_date, "general_consultation") # {}
    /\ last.out.results = << >>

---------------------------------------------------------------------------
(* C29 *)

\* C29: for a request that passes the validation the availability decision
\* of create_appointment follows the time its time string denotes: if that
\* time starts a free slot of the day the slot is found available and the
\* booking is made, whatever the textual form of the time.
C29_TimeValueDecides ==
    (/\ IsCreateResult
     /\ WellFormed(last.data)
     /\ StartsFreeSlot(last.data))
    => last.out.success

=============================================================================
